---- MODULE Spec2Model ----
(***************************************************************************)
(* Model of pipeline/ingest_data.py: main() reads a sample of the source,  *)
(* creates the destination table from it, then ingest_data_in_chunks()     *)
(* re-reads the source in chunks, replaces the table on the first chunk    *)
(* and appends every chunk, counting and reporting the rows.               *)
(*                                                                         *)
(* A source is a sequence of rows; a row is abstracted to its kind:        *)
(*   "ok"      every cell converts to its declared type,                   *)
(*   "badnum"  a DATATYPES column holds text that does not convert,        *)
(*   "baddate" a DATE_COLUMNS column holds text that is no date.           *)
(* A stored row is <<run, idx>>: row idx of the source of invocation run.  *)
(***************************************************************************)
EXTENDS Integers, Sequences, FiniteSets, TLC

\* ---- bounds of the model
MaxRows == 4        \* longest source, in data rows
MaxChunk == 3       \* largest --chunk-size
MaxBad == 1         \* most rows of a source that are not "ok"
MaxRuns == 2        \* invocations of main, one after the other
SampleRows == 2     \* stands for nrows=1000 of the sample read, scaled to MaxRows

VARIABLES
    run,                    \* number of the current invocation of main
    src,                    \* the CSV behind data_url: kinds of its data rows
    chunk_size,             \* --chunk-size
    pc,                     \* position of the invocation in main / ingest_data_in_chunks
    err,                    \* the exception that ended the invocation, or "none"
    df_sample,              \* main: df_sample, as the indices of its rows
    reader_open,            \* df_iterator exists
    pos,                    \* df_iterator: data rows consumed so far
    first_read,             \* df_iterator: no read has been made yet
    chunk,                  \* loop variable chunk, as the indices of its rows
    is_first_chunk,         \* ingest_data_in_chunks: is_first_chunk
    total_rows_processed,   \* ingest_data_in_chunks: total_rows_processed
    table,                  \* the store's table table_name
    reports,                \* the "Inserted chunk" lines printed, as <<chunk_rows, total>>
    batches,                \* history: the chunks df_iterator has yielded in this run
    appended,               \* history: the chunks whose append returned in this run
    table0,                 \* history: the table when this invocation started
    failed_at,              \* history: pc of the step that raised, or "none"
    prev_pc,                \* history: how the previous invocation ended, or "none"
    success_msg,            \* "Data ingestion process completed successfully!" was printed
    exit_status             \* the process's exit status, -1 while it runs

vars == <<run, src, chunk_size, pc, err, df_sample, reader_open, pos, first_read,
          chunk, is_first_chunk, total_rows_processed, table, reports, batches,
          appended, table0, failed_at, prev_pc, success_msg, exit_status>>

Kinds == {"ok", "badnum", "baddate"}

Min(a, b) == IF a < b THEN a ELSE b

Range(s) == {s[i] : i \in DOMAIN s}

RECURSIVE SumLen(_)
SumLen(ss) == IF ss = <<>> THEN 0 ELSE Len(Head(ss)) + SumLen(Tail(ss))

RECURSIVE Flatten(_)
Flatten(ss) == IF ss = <<>> THEN <<>> ELSE Head(ss) \o Flatten(Tail(ss))

IsPrefix(s, u) == Len(s) <= Len(u) /\ SubSeq(u, 1, Len(s)) = s

\* The inputs of one invocation: a source and a chunk size.
Sources ==
    {s \in UNION {[1..n -> Kinds] : n \in 0..MaxRows} :
        Cardinality({i \in DOMAIN s : s[i] # "ok"}) <= MaxBad}

ChunkSizes == 1..MaxChunk

\* The end-to-end scenario: a 2,500-row source of good rows, read 1,000 at a time.
ScenarioInput == [src |-> [i \in 1..2500 |-> "ok"], chunk_size |-> 1000]

\* main, lines 128-130: --year and --month choose the source, --chunk-size the size
Inputs ==
    {[src |-> s, chunk_size |-> c] : s \in Sources, c \in ChunkSizes}
        \cup {ScenarioInput}

\* ---- pandas.read_csv(dtype=DATATYPES, parse_dates=DATE_COLUMNS)

\* Rows lo..hi of the file, as read by one parser read.
RowsRead(lo, hi) == [i \in 1..(hi - lo + 1) |-> lo + i - 1]

\* dtype=DATATYPES: a cell that does not convert raises (ValueError).
CoercionFails(s, idxs) == \E i \in Range(idxs) : s[i] = "badnum"

\* parse_dates=DATE_COLUMNS: a column with a value that is no date is returned
\* unaltered as object; nothing is raised.
DateDtype(s, idxs) ==
    IF \E i \in Range(idxs) : s[i] = "baddate" THEN "object" ELSE "datetime64"

\* ---- the store

NoTable == [exists |-> FALSE, rows |-> <<>>, dtcol |-> "none"]

\* Mutant: the table is created only if it does not exist (if_exists="append").
ReplaceTableKeepsRows(t, dt) ==
    IF t.exists THEN t ELSE [exists |-> TRUE, rows |-> <<>>, dtcol |-> dt]

\* DataFrame.head(0).to_sql(if_exists="replace"): drop the table if it exists and
\* create it empty with the frame's column types, in one transaction.
ReplaceTable(t, dt) == [exists |-> TRUE, rows |-> <<>>, dtcol |-> dt]

\* The rows a chunk holds, as the store keeps them.
StoredRows(r, idxs) == [i \in 1..Len(idxs) |-> <<r, idxs[i]>>]

\* Mutant: the rows of a chunk are put before the rows already stored.
AppendRowsInFront(t, r, idxs) == [t EXCEPT !.rows = StoredRows(r, idxs) \o t.rows]

\* DataFrame.to_sql(if_exists="append", index=False): all rows of the frame are
\* inserted after the existing ones in one transaction.
AppendRows(t, r, idxs) == [t EXCEPT !.rows = t.rows \o StoredRows(r, idxs)]

\* Mutant: the rows inserted before the failure stay (no transaction).
FailedAppendPartial(t, r, idxs) ==
    IF idxs = <<>> THEN t ELSE [t EXCEPT !.rows = t.rows \o <<<<r, idxs[1]>>>>]

\* The same to_sql call when the insert raises: the transaction is rolled back.
FailedAppend(t, r, idxs) == t

\* The store rejects text that is no timestamp in a timestamp column.
StoreRejects(t, s, idxs) ==
    t.dtcol = "datetime64" /\ DateDtype(s, idxs) = "object"

OldTable ==
    [exists |-> TRUE, rows |-> <<<<0, 1>>, <<0, 2>>>>, dtcol |-> "datetime64"]

Init ==
    /\ run = 1
    /\ \E inp \in Inputs : src = inp.src /\ chunk_size = inp.chunk_size
    /\ pc = "start"
    /\ err = "none"
    /\ df_sample = <<>>
    /\ reader_open = FALSE
    /\ pos = 0
    /\ first_read = TRUE
    /\ chunk = <<>>
    /\ is_first_chunk = TRUE
    /\ total_rows_processed = 0
    /\ table \in {NoTable, OldTable}
    /\ reports = <<>>
    /\ batches = <<>>
    /\ appended = <<>>
    /\ table0 = table
    /\ failed_at = "none"
    /\ prev_pc = "none"
    /\ success_msg = FALSE
    /\ exit_status = -1

\* An exception propagates out of main: the invocation ends.
Raise(kind) ==
    /\ pc' = "failed"
    /\ err' = kind
    /\ failed_at' = pc
    /\ UNCHANGED <<prev_pc, success_msg, exit_status>>

\* The step returns and the invocation goes on at `next`.
Goto(next) ==
    /\ pc' = next
    /\ UNCHANGED <<err, failed_at, prev_pc, success_msg, exit_status>>

\* Mutant: the table is replaced before the sample is read.
ReadSampleAfterReplace ==
    /\ pc = "start"
    /\ LET idxs == RowsRead(1, Min(SampleRows, Len(src))) IN
       \/ /\ Raise("SourceUnavailable")
          /\ UNCHANGED df_sample
       \/ /\ CoercionFails(src, idxs)
          /\ Raise("SchemaViolation")
          /\ UNCHANGED df_sample
       \/ /\ ~CoercionFails(src, idxs)
          /\ df_sample' = idxs
          /\ Goto("sampled")
    /\ table' = ReplaceTable(table, "datetime64")
    /\ UNCHANGED <<run, src, chunk_size, reader_open, pos, first_read, chunk,
                   is_first_chunk, total_rows_processed, reports, batches,
                   appended, table0>>

\* main, lines 147-152: df_sample = pd.read_csv(..., nrows=1000)
ReadSample ==
    /\ pc = "start"
    /\ LET idxs == RowsRead(1, Min(SampleRows, Len(src))) IN
       \/ /\ Raise("SourceUnavailable")
          /\ UNCHANGED df_sample
       \/ /\ CoercionFails(src, idxs)
          /\ Raise("SchemaViolation")
          /\ UNCHANGED df_sample
       \/ /\ ~CoercionFails(src, idxs)
          /\ df_sample' = idxs
          /\ Goto("sampled")
    /\ UNCHANGED <<run, src, chunk_size, reader_open, pos, first_read, chunk,
                   is_first_chunk, total_rows_processed, table, reports, batches,
                   appended, table0>>

\* Mutant: the sample itself is written (df_sample.to_sql without head(n=0)).
CreateTableSchemaWithSample ==
    /\ pc = "sampled"
    /\ \/ /\ Raise("StoreError")
          /\ UNCHANGED table
       \/ /\ table' = AppendRows(ReplaceTable(table, DateDtype(src, df_sample)),
                                run, df_sample)
          /\ Goto("schema_created")
    /\ UNCHANGED <<run, src, chunk_size, df_sample, reader_open, pos, first_read,
                   chunk, is_first_chunk, total_rows_processed, reports, batches,
                   appended, table0>>

\* main, line 159: create_table_schema(engine, df_sample, table_name), lines 64-77
CreateTableSchema ==
    /\ pc = "sampled"
    /\ \/ /\ Raise("StoreError")
          /\ UNCHANGED table
       \/ /\ table' = ReplaceTable(table, DateDtype(src, df_sample))
          /\ Goto("schema_created")
    /\ UNCHANGED <<run, src, chunk_size, df_sample, reader_open, pos, first_read,
                   chunk, is_first_chunk, total_rows_processed, reports, batches,
                   appended, table0>>

\* ingest_data_in_chunks, lines 83-94: df_iterator = pd.read_csv(..., iterator=True),
\* is_first_chunk = True, total_rows_processed = 0
OpenReader ==
    /\ pc = "schema_created"
    /\ \/ /\ Raise("SourceUnavailable")
          /\ UNCHANGED <<reader_open, pos, first_read, is_first_chunk,
                         total_rows_processed>>
       \/ /\ reader_open' = TRUE
          /\ pos' = 0
          /\ first_read' = TRUE
          /\ is_first_chunk' = TRUE
          /\ total_rows_processed' = 0
          /\ Goto("loop")
    /\ UNCHANGED <<run, src, chunk_size, df_sample, chunk, table, reports, batches,
                   appended, table0>>

\* Mutant: a file with no data row yields no chunk at all.
ReaderExhaustedAtOnce == pos >= Len(src)

\* The parser's read of the next chunksize rows. On the first read a file with
\* no data row gives an empty frame; on a later read it ends the iteration.
ReaderExhausted == pos >= Len(src) /\ ~first_read

\* Mutant: a read takes one row more than chunksize.
NextChunkRowsOneMore == RowsRead(pos + 1, Min(pos + chunk_size + 1, Len(src)))

\* Mutant: every read starts again at the first row of the file.
NextChunkRowsFromStart == RowsRead(1, Min(chunk_size, Len(src)))

\* line 88: chunksize=chunk_size; the last chunk holds what is left
NextChunkRows == RowsRead(pos + 1, Min(pos + chunk_size, Len(src)))

\* ingest_data_in_chunks, line 96: the for loop asks df_iterator for the next chunk
NextChunk ==
    /\ pc = "loop"
    /\ \/ /\ Raise("SourceUnavailable")
          /\ UNCHANGED <<pos, first_read, chunk, batches>>
       \/ /\ ~ReaderExhausted
          /\ CoercionFails(src, NextChunkRows)
          /\ Raise("SchemaViolation")
          /\ UNCHANGED <<pos, first_read, chunk, batches>>
       \/ /\ ~ReaderExhausted
          /\ ~CoercionFails(src, NextChunkRows)
          /\ chunk' = NextChunkRows
          /\ pos' = pos + Len(NextChunkRows)
          /\ first_read' = FALSE
          /\ batches' = Append(batches, NextChunkRows)
          /\ Goto(IF is_first_chunk THEN "create" ELSE "insert")
       \/ /\ ReaderExhausted
          /\ Goto("loop_end")
          /\ UNCHANGED <<pos, first_read, chunk, batches>>
    /\ UNCHANGED <<run, src, chunk_size, df_sample, reader_open, is_first_chunk,
                   total_rows_processed, table, reports, appended, table0>>

\* Mutant: is_first_chunk is never cleared, so every chunk replaces the table.
CreateTableFromEveryChunk ==
    /\ pc = "create"
    /\ \/ /\ Raise("StoreError")
          /\ UNCHANGED <<table, is_first_chunk>>
       \/ /\ table' = ReplaceTable(table, DateDtype(src, chunk))
          /\ UNCHANGED is_first_chunk
          /\ Goto("insert")
    /\ UNCHANGED <<run, src, chunk_size, df_sample, reader_open, pos, first_read,
                   chunk, total_rows_processed, reports, batches, appended, table0>>

\* ingest_data_in_chunks, lines 97-105: if is_first_chunk: chunk.head(0).to_sql(replace)
CreateTableFromFirstChunk ==
    /\ pc = "create"
    /\ \/ /\ Raise("StoreError")
          /\ UNCHANGED <<table, is_first_chunk>>
       \/ /\ table' = ReplaceTable(table, DateDtype(src, chunk))
          /\ is_first_chunk' = FALSE
          /\ Goto("insert")
    /\ UNCHANGED <<run, src, chunk_size, df_sample, reader_open, pos, first_read,
                   chunk, total_rows_processed, reports, batches, appended, table0>>

\* Mutant: a failed append is swallowed and the loop goes on (skip-and-continue).
InsertChunkSkips ==
    /\ pc = "insert"
    /\ \/ /\ Goto("count")
          /\ UNCHANGED <<table, appended>>
       \/ /\ ~StoreRejects(table, src, chunk)
          /\ table' = AppendRows(table, run, chunk)
          /\ appended' = Append(appended, chunk)
          /\ Goto("count")
    /\ UNCHANGED <<run, src, chunk_size, df_sample, reader_open, pos, first_read,
                   chunk, is_first_chunk, total_rows_processed, reports, batches,
                   table0>>

\* ingest_data_in_chunks, lines 108-113: chunk.to_sql(if_exists="append", index=False)
InsertChunk ==
    /\ pc = "insert"
    /\ \/ /\ Raise("StoreError")
          /\ table' = FailedAppend(table, run, chunk)
          /\ UNCHANGED appended
       \/ /\ ~StoreRejects(table, src, chunk)
          /\ table' = AppendRows(table, run, chunk)
          /\ appended' = Append(appended, chunk)
          /\ Goto("count")
    /\ UNCHANGED <<run, src, chunk_size, df_sample, reader_open, pos, first_read,
                   chunk, is_first_chunk, total_rows_processed, reports, batches,
                   table0>>

\* Mutant: the counter counts chunks, not rows.
NewTotalCountsChunks(total, chunk_rows) == total + 1

\* Mutant: the counter is overwritten, not accumulated.
NewTotalOverwrites(total, chunk_rows) == chunk_rows

\* line 116: total_rows_processed += chunk_rows
NewTotal(total, chunk_rows) == total + chunk_rows

\* Mutant: the report carries the total before the increment.
AddReportStaleTotal(rs, chunk_rows, total) ==
    Append(rs, <<chunk_rows, total - chunk_rows>>)

\* line 117: print(f"Inserted chunk: {chunk_rows:,} rows (Total: {total:,})")
AddReport(rs, chunk_rows, total) == Append(rs, <<chunk_rows, total>>)

\* ingest_data_in_chunks, lines 115-117
CountAndReport ==
    /\ pc = "count"
    /\ LET chunk_rows == Len(chunk) IN
       /\ total_rows_processed' = NewTotal(total_rows_processed, chunk_rows)
       /\ reports' = AddReport(reports, chunk_rows, total_rows_processed')
    /\ Goto("loop")
    /\ UNCHANGED <<run, src, chunk_size, df_sample, reader_open, pos,
                   first_read, chunk, is_first_chunk, table, batches, appended,
                   table0>>

\* ingest_data_in_chunks, line 119, and main, lines 165-166: the loop has ended,
\* "Ingestion complete!" and "completed successfully!" are printed, main returns
Finish ==
    /\ pc = "loop_end"
    /\ pc' = "done"
    /\ success_msg' = TRUE
    /\ UNCHANGED <<err, failed_at, prev_pc, exit_status>>
    /\ UNCHANGED <<run, src, chunk_size, df_sample, reader_open, pos,
                   first_read, chunk, is_first_chunk, total_rows_processed, table,
                   reports, batches, appended, table0>>

\* Mutant: the process ends with status 0 whatever happened.
ExitStatusAlwaysZero(p) == 0

\* Python: status 0 when main returned, 1 when an exception left it uncaught.
ExitStatus(p) == IF p = "done" THEN 0 ELSE 1

\* lines 169-170: main has returned or an exception has left it; the process ends
\* and its memory is gone, the store and the printed output stay
Exit ==
    /\ pc \in {"done", "failed"}
    /\ pc' = "exited"
    /\ prev_pc' = pc
    /\ src' = <<>>
    /\ chunk_size' = 1
    /\ err' = "none"
    /\ df_sample' = <<>>
    /\ reader_open' = FALSE
    /\ pos' = 0
    /\ first_read' = TRUE
    /\ chunk' = <<>>
    /\ is_first_chunk' = TRUE
    /\ total_rows_processed' = 0
    /\ reports' = <<>>
    /\ batches' = <<>>
    /\ appended' = <<>>
    /\ failed_at' = "none"
    /\ exit_status' = ExitStatus(pc)
    /\ UNCHANGED <<run, table, table0, success_msg>>

\* lines 169-170: the script is invoked again, against the same store and table name
NextRun ==
    /\ pc = "exited"
    /\ run < MaxRuns
    /\ run' = run + 1
    /\ \E inp \in Inputs : src' = inp.src /\ chunk_size' = inp.chunk_size
    /\ pc' = "start"
    /\ table0' = table
    /\ success_msg' = FALSE
    /\ exit_status' = -1
    /\ UNCHANGED <<err, df_sample, reader_open, pos, first_read, chunk,
                   is_first_chunk, total_rows_processed, table, reports, batches,
                   appended, failed_at, prev_pc>>

Next ==
    \/ ReadSample
    \/ CreateTableSchema
    \/ OpenReader
    \/ NextChunk
    \/ CreateTableFromFirstChunk
    \/ InsertChunk
    \/ CountAndReport
    \/ Finish
    \/ Exit
    \/ NextRun

Spec == Init /\ [][Next]_vars

\* The steps of one invocation. Every read, store call and statement of main
\* eventually returns or raises; whether the script is run again is up to the
\* user.
RunStep ==
    \/ ReadSample
    \/ CreateTableSchema
    \/ OpenReader
    \/ NextChunk
    \/ CreateTableFromFirstChunk
    \/ InsertChunk
    \/ CountAndReport
    \/ Finish

\* One invocation from its start to the end of the process, under that fairness.
FairSpec == Init /\ [][RunStep \/ Exit]_vars /\ WF_vars(RunStep)

\* ---- the claims

\* All rows of an n-row source of invocation r, in file order.
AllRows(r, n) == StoredRows(r, RowsRead(1, n))

\* C1: when a load completes (every batch read and appended without error), the
\* final total_rows_processed equals the sum of the sizes of the batches produced,
\* which equals the number of data rows of the source and the number of rows in
\* the destination table.
C1_TotalEqualsSourceRows ==
    pc = "done" =>
        /\ total_rows_processed = SumLen(batches)
        /\ SumLen(batches) = Len(src)
        /\ Len(table.rows) = Len(src)

C1_Witness ==
    /\ pc = "done"
    /\ Len(batches) >= 2
    /\ Len(src) >= 3
    /\ table0.rows # <<>>

\* C2: if the store fails during the append of batch k, the table afterwards holds
\* all rows of batches 1..k-1, in order, and no row of batch k; its row count is
\* the sum of the sizes of batches 1..k-1, never a count in between.
C2_AppendAtomic ==
    (pc = "failed" /\ failed_at = "insert") =>
        LET k == Len(batches)
            before == SubSeq(batches, 1, k - 1)
        IN  /\ err = "StoreError"
            /\ table.exists
            /\ table.rows = StoredRows(run, Flatten(before))
            /\ Len(table.rows) = SumLen(before)
            /\ \A i \in Range(batches[k]) : <<run, i>> \notin Range(table.rows)

C2_Witness ==
    /\ pc = "failed"
    /\ failed_at = "insert"
    /\ Len(batches) >= 2
    /\ Len(batches[Len(batches)]) >= 2
    /\ table.rows # <<>>

\* C3: total_rows_processed changes only in the step after a successful append of
\* the current chunk, by that chunk's row count; the append step either succeeds
\* and goes on to the count, or fails, leaves counter, table and batches as they
\* were and ends the load; after a failure nothing more is read, appended or
\* counted in that invocation.
C3_Step ==
    /\ (total_rows_processed' # total_rows_processed /\ pc' # "exited") =>
            /\ pc = "count"
            /\ appended # <<>>
            /\ appended[Len(appended)] = chunk
            /\ Len(appended) = Len(batches)
            /\ total_rows_processed' = total_rows_processed + Len(chunk)
    /\ pc = "insert" =>
            \/ /\ pc' = "count"
               /\ appended' = Append(appended, chunk)
            \/ /\ pc' = "failed"
               /\ total_rows_processed' = total_rows_processed
               /\ table' = table
               /\ appended' = appended
    /\ pc = "failed" =>
            /\ pc' = "exited"
            /\ table' = table
    /\ total_rows_processed <= SumLen(appended)

\* C3: every step of the program counts only after a successful append and stops at a failed one.
C3_CountAfterAppend == [][C3_Step]_vars

C3_Witness ==
    /\ pc = "failed"
    /\ failed_at = "insert"
    /\ total_rows_processed > 0
    /\ total_rows_processed = SumLen(appended)
    /\ pos < Len(src)

\* C4: when an invocation completes after an earlier invocation that completed
\* against the same table, the table holds exactly the rows of the later
\* invocation's source: no row of the earlier one is left, and the row count is
\* that of one source.
C4_ReplaceSemantics ==
    (run >= 2 /\ prev_pc = "done" /\ pc = "done") =>
        /\ table.rows = AllRows(run, Len(src))
        /\ Len(table.rows) = Len(src)

C4_Witness ==
    /\ run = 2
    /\ prev_pc = "done"
    /\ pc = "done"
    /\ \E i \in DOMAIN table0.rows : table0.rows[i][1] = 1
    /\ Len(src) >= 2

\* C5, as claimed: whenever an invocation has failed with SourceUnavailable, the
\* store is as it was before the invocation started.
C5_SourceFailureLeavesStoreAsBefore ==
    (pc = "failed" /\ err = "SourceUnavailable") => table = table0

\* C5, amended: a step that fails with SourceUnavailable changes nothing in the
\* store and ends the invocation at once (the next step is the process exit). At
\* the sample read the store is still as before the invocation; at the opening of
\* the chunked reader the table has already been replaced by an empty one; at a
\* chunk read the table holds exactly the rows of the batches appended so far.
C5_Step ==
    /\ (pc' = "failed" /\ err' = "SourceUnavailable") =>
            /\ table' = table
            /\ pc \in {"start", "schema_created", "loop"}
            /\ pc = "start" => table = table0
            /\ pc = "schema_created" => (table.exists /\ table.rows = <<>>)
            /\ pc = "loop" =>
                    /\ table.exists
                    /\ table.rows = StoredRows(run, Flatten(appended))
    /\ (pc = "failed" /\ err = "SourceUnavailable") =>
            /\ pc' = "exited"
            /\ table' = table

\* C5, amended: every step of the program treats a source failure as stated above.
C5_SourceFailureAmended == [][C5_Step]_vars

C5_Witness ==
    /\ pc = "failed"
    /\ err = "SourceUnavailable"
    /\ failed_at = "start"
    /\ table0.rows # <<>>
    /\ table = table0

\* The chunks the file splits into: chunk k holds rows (k-1)*chunk_size+1 ..
\* k*chunk_size, the last one what is left.
BatchRows(k) == RowsRead((k - 1) * chunk_size + 1, Min(k * chunk_size, Len(src)))

NumBatches ==
    IF Len(src) = 0 THEN 1 ELSE (Len(src) + chunk_size - 1) \div chunk_size

\* C6: if batch k holds a cell that cannot be coerced to its declared type (a
\* number column or a timestamp column), the load does not complete, no row of
\* batch k is in the table, and no batch after k is read or appended.
C6_BadBatchRejected ==
    \A k \in 1..NumBatches :
        (\E i \in Range(BatchRows(k)) : src[i] # "ok") =>
            /\ pc # "done"
            /\ Len(batches) <= k
            /\ Len(appended) < k
            /\ \A i \in Range(BatchRows(k)) : <<run, i>> \notin Range(table.rows)

\* The Batch Loader's lifecycle state, read off the loop's variables. The loader
\* starts consuming once df_iterator exists; a failure before that is no state of
\* the loader.
LoaderState(pcv, fat, ifc, app) ==
    CASE pcv = "done" -> "Complete"
      [] pcv = "failed" /\ fat \in {"loop", "create", "insert"} -> "Failed"
      [] pcv \in {"loop", "create"} /\ ifc -> "Idle"
      [] pcv = "insert" /\ app = <<>> -> "TableCreated"
      [] pcv \in {"loop", "insert", "count", "loop_end"} /\ ~ifc -> "Appending"
      [] OTHER -> "NotStarted"

Loader == LoaderState(pc, failed_at, is_first_chunk, appended)

\* C7, as claimed: the lifecycle takes only the transitions Idle->TableCreated,
\* TableCreated->Appending, Appending->Appending, Appending->Complete, and
\* TableCreated->Failed or Appending->Failed on a coercion or store error; Failed
\* is never entered from Idle; after Failed or Complete nothing changes the store.
C7_ClaimedStep ==
    /\ (Loader # "NotStarted" /\ Loader' # Loader) =>
            \/ Loader = "Idle" /\ Loader' = "TableCreated"
            \/ Loader = "TableCreated" /\ Loader' = "Appending"
            \/ Loader = "Appending" /\ Loader' = "Complete"
            \/ /\ Loader \in {"TableCreated", "Appending"}
               /\ Loader' = "Failed"
               /\ err' \in {"SchemaViolation", "StoreError"}
            \/ Loader \in {"Complete", "Failed"} /\ pc' = "exited" /\ table' = table
    /\ Loader \in {"Complete", "Failed"} => pc' = "exited"

\* C7, as claimed: every step of the program is one of the claimed transitions.
C7_ClaimedLifecycle == [][C7_ClaimedStep]_vars

\* C7, amended: the lifecycle takes only the transitions Idle->TableCreated,
\* TableCreated->Appending, Appending->Appending, Appending->Complete, and
\* Idle->Failed, TableCreated->Failed or Appending->Failed on a source, coercion
\* or store error (Idle->Failed when the read of the first batch or the table
\* creation fails). Complete is entered only from Appending, and after Failed or
\* Complete the only step is the process exit, which leaves the table as it is.
C7_AmendedStep ==
    /\ (Loader # "NotStarted" /\ Loader' # Loader) =>
            \/ Loader = "Idle" /\ Loader' = "TableCreated"
            \/ Loader = "TableCreated" /\ Loader' = "Appending"
            \/ Loader = "Appending" /\ Loader' = "Complete"
            \/ /\ Loader \in {"Idle", "TableCreated", "Appending"}
               /\ Loader' = "Failed"
               /\ err' \in {"SourceUnavailable", "SchemaViolation", "StoreError"}
            \/ Loader \in {"Complete", "Failed"} /\ pc' = "exited" /\ table' = table
    /\ Loader = "NotStarted" => Loader' \in {"NotStarted", "Idle"}
    /\ Loader \in {"Complete", "Failed"} => pc' = "exited"
    /\ Loader = "Idle" => appended = <<>>

\* C7, amended: every step of the program is one of the amended transitions.
C7_AmendedLifecycle == [][C7_AmendedStep]_vars

C7_Witness ==
    /\ Loader = "Failed"
    /\ failed_at = "loop"
    /\ batches = <<>>
    /\ err = "SchemaViolation"

\* C8: every batch the reader has produced has at most chunk_size rows, and every
\* batch but the last has exactly chunk_size rows.
C8_BatchSizes ==
    \A i \in DOMAIN batches :
        /\ Len(batches[i]) <= chunk_size
        /\ i < Len(batches) => Len(batches[i]) = chunk_size

C8_Witness ==
    /\ pc = "done"
    /\ Len(batches) >= 2
    /\ Len(batches[Len(batches)]) < chunk_size
    /\ Len(batches[Len(batches)]) > 0

\* C9: the first append of an invocation finds the table replaced and empty, with
\* the column types of the first batch; from the first append on the table is
\* never dropped, replaced, updated or deleted from in that invocation: its old
\* rows stay in place and its row count does not decrease.
C9_Step ==
    /\ (appended = <<>> /\ appended' # <<>>) =>
            /\ table.exists
            /\ table.rows = <<>>
            /\ table.dtcol = DateDtype(src, batches[1])
            /\ ~is_first_chunk
    /\ appended # <<>> =>
            /\ table'.exists
            /\ table'.dtcol = table.dtcol
            /\ IsPrefix(table.rows, table'.rows)
            /\ Len(table'.rows) >= Len(table.rows)

\* C9: every step of the program keeps the table's lifecycle stated above.
C9_TableLifecycle == [][C9_Step]_vars

C9_Witness ==
    /\ pc = "done"
    /\ Len(appended) >= 2
    /\ table0.rows # <<>>
    /\ table.rows # <<>>

\* C10: the reports printed so far are one per appended batch, in order, each
\* carrying (rows of batch i, sum of the sizes of batches 1..i); the report of a
\* batch is printed right after its append and before the next batch is
\* requested, and a batch whose read or append failed has no report. A 2500-row
\* source read with chunk size 1000 ends with the reports (1000, 1000),
\* (1000, 2000), (500, 2500) and 2500 rows in the table.
C10_Reports ==
    /\ Len(reports) <= Len(appended)
    /\ Len(reports) = IF pc = "count" THEN Len(appended) - 1 ELSE Len(appended)
    /\ Len(batches) <= Len(reports) + 1
    /\ \A i \in DOMAIN reports :
            reports[i] = <<Len(appended[i]), SumLen(SubSeq(appended, 1, i))>>
    /\ (pc = "done" /\ Len(src) = 2500 /\ chunk_size = 1000) =>
            /\ reports = <<<<1000, 1000>>, <<1000, 2000>>, <<500, 2500>>>>
            /\ Len(table.rows) = 2500

C10_Witness ==
    /\ pc = "done"
    /\ Len(src) = 2500
    /\ chunk_size = 1000
    /\ Len(reports) = 3
    /\ reports[3] = <<500, 2500>>

\* C11: the reader exists before anything is consumed; a batch is requested only
\* when every batch read so far has been appended successfully, so at most one
\* batch is read but not yet appended; and a store write of the loop appends the
\* rows of exactly one batch, the current one.
C11_Step ==
    /\ (batches' # batches /\ pc' # "exited") =>
            /\ reader_open
            /\ pc = "loop"
            /\ appended = batches
            /\ Len(batches') = Len(batches) + 1
    /\ (reader_open' /\ ~reader_open) => (batches = <<>> /\ appended = <<>>)
    /\ batches # <<>> => reader_open
    /\ IsPrefix(appended, batches)
    /\ Len(batches) - Len(appended) \in {0, 1}
    /\ (pc = "insert" /\ table' # table) =>
            /\ chunk = batches[Len(batches)]
            /\ table'.rows = table.rows \o StoredRows(run, chunk)
            /\ appended' = Append(appended, chunk)

\* C11: every step of the program keeps the pull-based ordering stated above.
C11_PullOrdering == [][C11_Step]_vars

C11_Witness ==
    /\ pc = "insert"
    /\ Len(batches) = 3
    /\ Len(appended) = 2
    /\ reader_open

ErrorKinds == {"SourceUnavailable", "SchemaViolation", "StoreError"}

\* C12: the success message is printed and the exit status is 0 exactly when the
\* invocation ended with no error, and then every batch of the source has been
\* read and appended. An invocation that failed with SourceUnavailable,
\* SchemaViolation or StoreError has printed no success message, does nothing
\* more but exit (no retry), exits with a non-zero status, and leaves the rows of
\* the batches it appended in the table.
C12_Step ==
    /\ success_msg => pc \in {"done", "exited"}
    /\ pc = "done" =>
            /\ success_msg
            /\ err = "none"
            /\ appended = batches
            /\ Flatten(batches) = RowsRead(1, Len(src))
    /\ pc = "failed" =>
            /\ ~success_msg
            /\ err \in ErrorKinds
            /\ pc' = "exited"
            /\ exit_status' # 0
            /\ table' = table
            /\ failed_at \in {"loop", "insert"} =>
                    table.rows = StoredRows(run, Flatten(appended))
    /\ pc' = "exited" =>
            /\ exit_status' = 0 <=> success_msg'
            /\ success_msg' <=> (pc = "done" /\ err = "none")

\* C12: every step of the program reports success and failure as stated above.
C12_SuccessIffNoError == [][C12_Step]_vars

C12_Witness ==
    /\ pc = "exited"
    /\ prev_pc = "failed"
    /\ exit_status = 1
    /\ ~success_msg
    /\ \E i \in DOMAIN table.rows : table.rows[i][1] = run

\* The rows of batches 1..n of the source, concatenated in file order.
BatchPrefix(n) == StoredRows(run, Flatten([k \in 1..n |-> BatchRows(k)]))

\* The loop is between two batches, or the invocation has ended, after the first
\* batch created the table.
AtBatchBoundary ==
    /\ ~is_first_chunk
    /\ pc \in {"loop", "loop_end", "done", "failed"}

\* C13: at every batch boundary after the table was created in the invocation,
\* and when the invocation has completed or failed, the table holds exactly the
\* rows of batches 1..n in file order for some n from 0 to the number of
\* batches (the number of batches appended): no row is duplicated, dropped or
\* reordered.
C13_BatchAlignedPrefix ==
    AtBatchBoundary =>
        /\ table.exists
        /\ Len(appended) \in 0..NumBatches
        /\ table.rows = BatchPrefix(Len(appended))
        /\ \A i \in DOMAIN table.rows : table.rows[i] = <<run, i>>

C13_Witness ==
    /\ pc = "failed"
    /\ ~is_first_chunk
    /\ Len(appended) = 2
    /\ NumBatches >= 3
    /\ Len(table.rows) >= 3

\* The batches read so far are batches 1, 2, ... of the file, each once and in
\* order: nothing is read again and the sequence is never restarted.
EachBatchOnce ==
    /\ Len(batches) <= NumBatches
    /\ \A k \in DOMAIN batches : batches[k] = BatchRows(k)
    /\ pos = SumLen(batches)

\* C14: when every read and every append eventually returns or fails, an
\* invocation that has started eventually completes or fails; the batches it
\* reads are the finitely many batches of the file, each consumed once, in
\* order, never re-read.
C14_Terminates ==
    /\ (pc = "start") ~> (pc \in {"done", "failed"})
    /\ [](pc # "exited" => EachBatchOnce)

C14_Witness ==
    /\ pc = "done"
    /\ Len(batches) = 3
    /\ Len(batches) = NumBatches
    /\ pos = Len(src)

\* C15: at every batch boundary of ingest_data_in_chunks after the first batch
\* created the table, and when the loader has completed or failed,
\* total_rows_processed equals the number of rows in the destination table.
C15_TotalEqualsTableRows ==
    (AtBatchBoundary \/ Loader \in {"Complete", "Failed"}) =>
        total_rows_processed = Len(table.rows)

C15_Witness ==
    /\ pc = "failed"
    /\ failed_at = "insert"
    /\ total_rows_processed >= 2
    /\ total_rows_processed = Len(table.rows)
    /\ table0.rows # <<>>

\* C16: the sample read and create_table_schema put no row in the table: when
\* create_table_schema has returned the table exists and is empty whatever the
\* sample holds, and in a completed invocation every row of the source is in
\* the table exactly once.
C16_SampleAddsNoRows ==
    /\ pc = "schema_created" => (table.exists /\ table.rows = <<>>)
    /\ pc = "done" =>
            /\ Len(table.rows) = Len(src)
            /\ \A i \in DOMAIN src : table.rows[i] = <<run, i>>

C16_Witness ==
    /\ pc = "schema_created"
    /\ Len(df_sample) >= 2
    /\ table0.rows # <<>>
    /\ table.exists
    /\ table.rows = <<>>

====
